---- MODULE Spec2Model ----
(***************************************************************************)
(* A model of lexical_selection_training.py: the pipe-chain executor       *)
(* (pipe), the parallel merge/clean filter, and the training run (main,    *)
(* parallel_training, non_parallel_training) as a state machine over a     *)
(* file system and a table of child processes.                             *)
(*                                                                         *)
(* The specifications share the module's variables:                        *)
(*   SpecPipe   one call of pipe and the life of the processes it starts   *)
(*   SpecClean  the merge/clean stage of the parallel recipe on small      *)
(*              tagged corpora                                             *)
(*   Spec       a whole training run                                       *)
(*   SpecQuery  one call of query and the lines typed in answer            *)
(*   SpecMultitrans  the two multitrans processes reading the file f_in    *)
(*   SpecTwoRuns  two runs started in the same working directory           *)
(***************************************************************************)
EXTENDS Integers, Sequences, FiniteSets, TLC

VARIABLES
    \* ---- pipe (SpecPipe) ----
    cmds,            \* the caller's command list (a mutable Python list)
    firstin,         \* the caller's input source: "none" or a file
    expected_lines,  \* NoneLines, or the count passed by the caller
    pv,              \* whether shutil.which("pv") finds the monitor
    procs,           \* the processes started by pipe, in start order
    ret,             \* what pipe returned: NoneHandle, or the index of a process
    ppc,             \* the caller's position: "start", "called", "waited"
    cmds_in,         \* the elements the list had when pipe was called
    \* ---- merge/clean (SpecClean) ----
    corpus,          \* the tagged lines: a sequence of [sl, tl] strings
    lines_f,         \* content of the .lines artifact (a sequence of numbers)
    sl_f,            \* content of the tagged source artifact
    tl_f,            \* content of the tagged target artifact
    clean_f,         \* content of the clean_tagged scratch file
    cpc,             \* position in the stage: "seq", "paste", "cut1", ... "done"
    c_parallel,      \* whether the stage is parallel_training's (or non_parallel's)
    \* ---- training run (Spec) ----
    pc,              \* position of main / the recipe
    config,          \* the validated configuration
    fs,              \* the paths that exist
    jobs,            \* child processes and chains that have not fully exited
    ip,              \* index of the recipe's current statement
    training_lines,  \* the local variable training_lines of the recipe
    muts,            \* every file-system mutation made so far, with its step
    asked,           \* the confirmation prompts issued so far
    started,         \* the stages started so far, in order
    reads_log,       \* reads that began while the artifact's writer still ran
    reported,        \* the rule-file path printed on completion, or NoPath
    warned,          \* whether the corpus-size warning has been printed
    nonzero,         \* whether some external process exited with a non-zero status
    exit_code,       \* the exit status of an aborted run, or NoExit
    \* ---- query (SpecQuery) ----
    q_default,       \* the local variable default of query
    q_typed,         \* the lines the user types, in order
    q_pos,           \* how many of them input() has consumed
    q_prompts,       \* how many times the question was printed
    q_hints,         \* how many times the usage hint was printed
    q_ret,           \* what query returned: "none", "True" or "False"
    qpc,             \* position in query: "entry", "print", "input", ...
    \* ---- the two multitrans runs (SpecMultitrans) ----
    f_in_len,        \* length of sl_tagged, in blocks
    f_in_off,        \* offset of the open file f_in, shared with the children
    child,           \* state of each multitrans process: "unborn", "reading", "eof"
    consumed,        \* the blocks each multitrans process has read, in order
    mpc,             \* the parent's position: "popen_ambig", "seek", ...
    \* ---- two runs in one working directory (SpecTwoRuns) ----
    t_cfg,           \* the corpus id, mode and model of each run
    t_at,            \* how many of its file-system steps each run has made
    t_touched        \* the paths each run has created, written or deleted

pipeVars  == <<cmds, firstin, expected_lines, pv, procs, ret, ppc, cmds_in>>
cleanVars == <<corpus, lines_f, sl_f, tl_f, clean_f, cpc, c_parallel>>
runVars   == <<pc, config, fs, jobs, ip, training_lines, muts, asked, started, reads_log,
               reported, warned, nonzero, exit_code>>
queryVars == <<q_default, q_typed, q_pos, q_prompts, q_hints, q_ret, qpc>>
multVars  == <<f_in_len, f_in_off, child, consumed, mpc>>
twoVars   == <<t_cfg, t_at, t_touched>>
vars      == <<pipeVars, cleanVars, runVars, queryVars, multVars, twoVars>>

(***************************************************************************)
(* Bounds of the model.                                                    *)
(***************************************************************************)
MaxCmds  == 3     \* longest command list handed to pipe in SpecPipe
MaxLines == 2     \* largest expected_lines / number of corpus lines
MaxCorpus == 2    \* most lines of the tagged corpora in SpecClean
MaxStr   == 1     \* longest tagged field in SpecClean
MaxTraining == 1  \* largest TRAINING_LINES and corpus line count of a run
MaxInputs == 3    \* most lines typed in answer to one prompt in SpecQuery
MaxBlocks == 3    \* most blocks of the tagged file read by multitrans

(***************************************************************************)
(* Python values.                                                          *)
(***************************************************************************)
NoneLines  == -1  \* expected_lines=None
NoneHandle == 0   \* pipe returning None (process indices start at 1)

SysStderr == "sys.stderr"
PIPE      == "PIPE"

\* str(n) for the small numbers of the model
Str(n) == IF n = -1 THEN "-1"
          ELSE <<"0", "1", "2", "3", "4", "5", "6", "7", "8", "9">>[n + 1]

\* Python truthiness of expected_lines: None and 0 are false
Truthy(n) == n # NoneLines /\ n # 0

\* a command: the executable and its arguments
Cmd(exe, args) == [exe |-> exe, args |-> args]

\* the monitoring stage pipe appends: ['pv', '-l', '-s', str(expected_lines)]
PvCmd(n) == Cmd("pv", <<"-l", "-s", Str(n)>>)

\* the stdin of a process: no redirection, a file, or the stdout of process `of`
NoStdin      == [kind |-> "none", of |-> 0, file |-> "none"]
FileStdin(f) == [kind |-> "file", of |-> 0, file |-> f]
PipeStdin(i) == [kind |-> "pipe", of |-> i, file |-> "none"]

(***************************************************************************)
(* pipe(cmds, firstin, lastout, stderr, expected_lines): the command list  *)
(* as the call leaves it (cmds += ... extends the caller's list in place), *)
(* the processes started, and the returned handle.                         *)
(***************************************************************************)
\* faulty variant: the monitor's error stream is used for every stage
PipeErrAllLast(cmdlist, inp, lastout, stderr, n, which_pv) ==
    IF cmdlist = <<>>
    THEN [cmds |-> cmdlist, procs |-> <<>>, ret |-> NoneHandle]
    ELSE LET mon     == Truthy(n) /\ which_pv
             cmds2   == IF mon THEN Append(cmdlist, PvCmd(n)) ELSE cmdlist
             lasterr == IF mon THEN SysStderr ELSE stderr
             len     == Len(cmds2)
         IN  [cmds  |-> cmds2,
              procs |-> [i \in 1..len |->
                           [cmd    |-> cmds2[i],
                            stdin  |-> IF i > 1 THEN PipeStdin(i - 1) ELSE inp,
                            stdout |-> IF i < len THEN PIPE ELSE lastout,
                            stderr |-> lasterr,
                            st     |-> "running"]],
              ret   |-> len]

\* faulty variant: the monitor is appended before the empty list is tested
PipeMonitorFirst(cmdlist, inp, lastout, stderr, n, which_pv) ==
    LET mon     == Truthy(n) /\ which_pv
        cmds2   == IF mon THEN Append(cmdlist, PvCmd(n)) ELSE cmdlist
        lasterr == IF mon THEN SysStderr ELSE stderr
        len     == Len(cmds2)
    IN  IF cmds2 = <<>>
        THEN [cmds |-> cmds2, procs |-> <<>>, ret |-> NoneHandle]
        ELSE [cmds  |-> cmds2,
              procs |-> [i \in 1..len |->
                           [cmd    |-> cmds2[i],
                            stdin  |-> IF i > 1 THEN PipeStdin(i - 1) ELSE inp,
                            stdout |-> IF i < len THEN PIPE ELSE lastout,
                            stderr |-> IF i < len THEN stderr ELSE lasterr,
                            st     |-> "running"]],
              ret   |-> len]

\* faulty variant: every process is given the caller's input source
PipeAllReadInput(cmdlist, inp, lastout, stderr, n, which_pv) ==
    IF cmdlist = <<>>
    THEN [cmds |-> cmdlist, procs |-> <<>>, ret |-> NoneHandle]
    ELSE LET mon     == Truthy(n) /\ which_pv
             cmds2   == IF mon THEN Append(cmdlist, PvCmd(n)) ELSE cmdlist
             lasterr == IF mon THEN SysStderr ELSE stderr
             len     == Len(cmds2)
         IN  [cmds  |-> cmds2,
              procs |-> [i \in 1..len |->
                           [cmd    |-> cmds2[i],
                            stdin  |-> inp,
                            stdout |-> IF i < len THEN PIPE ELSE lastout,
                            stderr |-> IF i < len THEN stderr ELSE lasterr,
                            st     |-> "running"]],
              ret   |-> len]

pipe(cmdlist, inp, lastout, stderr, n, which_pv) ==
    IF cmdlist = <<>>
    THEN [cmds |-> cmdlist, procs |-> <<>>, ret |-> NoneHandle]
    ELSE LET mon     == Truthy(n) /\ which_pv
             cmds2   == IF mon THEN Append(cmdlist, PvCmd(n)) ELSE cmdlist
             lasterr == IF mon THEN SysStderr ELSE stderr
             len     == Len(cmds2)
         IN  [cmds  |-> cmds2,
              procs |-> [i \in 1..len |->
                           [cmd    |-> cmds2[i],
                            stdin  |-> IF i > 1 THEN PipeStdin(i - 1) ELSE inp,
                            stdout |-> IF i < len THEN PIPE ELSE lastout,
                            stderr |-> IF i < len THEN stderr ELSE lasterr,
                            st     |-> "running"]],
              ret   |-> len]

(***************************************************************************)
(* SpecPipe: a caller builds a command list, calls pipe once and waits on  *)
(* the returned handle, as in  pipe(cmds, inp, outp, log, n).wait() .      *)
(* Every started process exits on its own; nothing orders the exits of     *)
(* the stages of a chain (in the docstring's  yes | head -2 | rev  the     *)
(* last stage ends while the first is still writing).                      *)
(***************************************************************************)
LastOut == "outf"      \* the caller's output sink
ErrSink == "log"       \* the caller's shared error sink

Commands == {Cmd("yes", <<"olleh">>), Cmd("rev", <<>>)}

CmdLists == UNION {[1..n -> Commands] : n \in 0..MaxCmds}

PipeIdle ==
    /\ cmds = <<>> /\ firstin = NoStdin /\ expected_lines = NoneLines
    /\ procs = <<>> /\ ret = NoneHandle /\ ppc = "idle" /\ cmds_in = <<>>

InitPipe ==
    /\ cmds \in CmdLists
    /\ firstin \in {NoStdin, FileStdin("inp")}
    /\ expected_lines \in {NoneLines} \cup (0..MaxLines)
    /\ pv \in BOOLEAN
    /\ procs = <<>>
    /\ ret = NoneHandle
    /\ ppc = "start"
    /\ cmds_in = <<>>

\* p = pipe(cmds, firstin, lastout, stderr, expected_lines)
CallPipe ==
    /\ ppc = "start"
    /\ LET r == pipe(cmds, firstin, LastOut, ErrSink, expected_lines, pv)
       IN  /\ cmds' = r.cmds
           /\ procs' = r.procs
           /\ ret' = r.ret
    /\ cmds_in' = cmds
    /\ ppc' = "called"
    /\ UNCHANGED <<firstin, expected_lines, pv>>

\* a child process ends
ProcExit ==
    /\ \E i \in 1..Len(procs) :
          /\ procs[i].st = "running"
          /\ procs' = [procs EXCEPT ![i].st = "exited"]
    /\ UNCHANGED <<cmds, firstin, expected_lines, pv, ret, ppc, cmds_in>>

\* p.wait() returns: Popen.wait waits for the one process it is called on
WaitReturn ==
    /\ ppc = "called"
    /\ ret # NoneHandle
    /\ procs[ret].st = "exited"
    /\ ppc' = "waited"
    /\ UNCHANGED <<cmds, firstin, expected_lines, pv, procs, ret, cmds_in>>

(***************************************************************************)
(* The merge/clean stage of parallel_training, and the clean stage of      *)
(* non_parallel_training, on file contents.  A file is a sequence of       *)
(* lines, a line a sequence of characters.  The tagged                     *)
(* fields are over {"<", "a"}: on these the two sed expressions of the     *)
(* stage (' ' -> '~~', and the text after '$') change nothing.             *)
(***************************************************************************)
TAB == "\t"

Alphabet == {"<", "a"}

Strings == UNION {[1..n -> Alphabet] : n \in 0..MaxStr}

Range(f) == {f[i] : i \in DOMAIN f}

\* faulty variant: the numbers start at 1 whatever `first` is
seq_from_one(first, last) == [i \in 1..(last - first + 1) |-> <<Str(i)>>]

\* seq first last: one number per line
seq(first, last) == [i \in 1..(last - first + 1) |-> <<Str(first + i - 1)>>]

\* paste f1 f2: the lines of the files joined by TAB
paste2(f1, f2) == [i \in 1..Len(f1) |-> f1[i] \o <<TAB>> \o f2[i]]

\* paste f1 f2 f3: the lines of the files joined by TAB
paste3(f1, f2, f3) ==
    [i \in 1..Len(f1) |-> f1[i] \o <<TAB>> \o f2[i] \o <<TAB>> \o f3[i]]

\* grep '<*\t*<': in the Python literal \t is the TAB character, so the basic
\* regular expression is  <* TAB* <  : a run of '<', a run of TABs, one '<',
\* matched anywhere in the line
grep(line) ==
    \E i \in 1..(Len(line) + 1), j \in 1..(Len(line) + 1), k \in 1..Len(line) :
        /\ i <= j /\ j <= k
        /\ \A x \in i..(j - 1) : line[x] = "<"
        /\ \A x \in j..(k - 1) : line[x] = TAB
        /\ line[k] = "<"

\* the positions of the TABs of a line, and the start and end of field k
TabsOf(line) == {x \in 1..Len(line) : line[x] = TAB}
FieldStart(line, k) ==
    IF k = 1 THEN 1
    ELSE (CHOOSE x \in TabsOf(line) :
            Cardinality({y \in TabsOf(line) : y < x}) = k - 2) + 1
FieldEnd(line, k) ==
    IF Cardinality(TabsOf(line)) < k THEN Len(line)
    ELSE (CHOOSE x \in TabsOf(line) :
            Cardinality({y \in TabsOf(line) : y < x}) = k - 1) - 1

\* cut -f k on one line
cut(line, k) == SubSeq(line, FieldStart(line, k), FieldEnd(line, k))

CleanIdle ==
    /\ corpus = <<>> /\ lines_f = <<>> /\ sl_f = <<>> /\ tl_f = <<>>
    /\ clean_f = <<>> /\ cpc = "idle" /\ c_parallel = FALSE

\* the tagging chains have written sl_tagged and, in the parallel recipe,
\* tl_tagged (the non-parallel recipe has no target side)
InitClean ==
    /\ c_parallel \in BOOLEAN
    /\ corpus \in UNION {[1..n -> [sl : Strings,
                                   tl : IF c_parallel THEN Strings ELSE {<<>>}]] :
                          n \in 0..MaxCorpus}
    /\ sl_f = [i \in 1..Len(corpus) |-> corpus[i].sl]
    /\ tl_f = IF c_parallel THEN [i \in 1..Len(corpus) |-> corpus[i].tl] ELSE <<>>
    /\ lines_f = <<>>
    /\ clean_f = <<>>
    /\ cpc = "seq"

\* call(['seq', '1', str(training_lines)], stdout=lines)
SeqLines ==
    /\ cpc = "seq" /\ c_parallel
    /\ lines_f' = seq(1, Len(corpus))
    /\ cpc' = "paste"
    /\ UNCHANGED <<corpus, sl_f, tl_f, clean_f, c_parallel>>

\* call(['seq', '0', str(training_lines-1)], stdout=lines)
SeqLinesNp ==
    /\ cpc = "seq" /\ ~c_parallel
    /\ lines_f' = seq(0, Len(corpus) - 1)
    /\ cpc' = "paste"
    /\ UNCHANGED <<corpus, sl_f, tl_f, clean_f, c_parallel>>

\* paste lines sl_tagged tl_tagged | grep '<*\t*<' > clean_tagged
PasteGrep ==
    /\ cpc = "paste" /\ c_parallel
    /\ clean_f' = SelectSeq(paste3(lines_f, sl_f, tl_f), grep)
    /\ cpc' = "cut1"
    /\ UNCHANGED <<corpus, lines_f, sl_f, tl_f, c_parallel>>

\* paste lines sl_tagged | grep '<*\t*<' > clean_tagged
PasteGrepNp ==
    /\ cpc = "paste" /\ ~c_parallel
    /\ clean_f' = SelectSeq(paste2(lines_f, sl_f), grep)
    /\ cpc' = "cut1"
    /\ UNCHANGED <<corpus, lines_f, sl_f, tl_f, c_parallel>>

\* cut -f 1 < clean_tagged > lines
CutLines ==
    /\ cpc = "cut1"
    /\ lines_f' = [i \in 1..Len(clean_f) |-> cut(clean_f[i], 1)]
    /\ cpc' = "cut2"
    /\ UNCHANGED <<corpus, sl_f, tl_f, clean_f, c_parallel>>

\* cut -f 2 < clean_tagged | sed | sed > sl_tagged
CutSl ==
    /\ cpc = "cut2" /\ c_parallel
    /\ sl_f' = [i \in 1..Len(clean_f) |-> cut(clean_f[i], 2)]
    /\ cpc' = "cut3"
    /\ UNCHANGED <<corpus, lines_f, tl_f, clean_f, c_parallel>>

\* call(['cut', '-f', '2'], stdin=f0, stdout=f2): the stage ends here
CutSlNp ==
    /\ cpc = "cut2" /\ ~c_parallel
    /\ sl_f' = [i \in 1..Len(clean_f) |-> cut(clean_f[i], 2)]
    /\ cpc' = "done"
    /\ UNCHANGED <<corpus, lines_f, tl_f, clean_f, c_parallel>>

\* cut -f 3 < clean_tagged | sed | sed > tl_tagged
CutTl ==
    /\ cpc = "cut3"
    /\ tl_f' = [i \in 1..Len(clean_f) |-> cut(clean_f[i], 3)]
    /\ cpc' = "done"
    /\ UNCHANGED <<corpus, lines_f, sl_f, clean_f, c_parallel>>

(***************************************************************************)
(* The training run.  A path is a directory and a name; os.path.join puts  *)
(* a name under the cache directory, a bare name lies in the working       *)
(* directory ".".                                                          *)
(***************************************************************************)
Path(dir, name) == [dir |-> dir, name |-> name, gz |-> FALSE]
NoPath == Path("", "")
Cwd    == "."
join(dir, name) == Path(dir, name)

NoExit == -1     \* the run has not called exit

\* main: cache_dir = f"cache-{CORPUS}-{SL}-{TL}", plus '-np' when not parallel
cache_dir(cfg) == IF cfg.IS_PARALLEL THEN "cache-c-sl-tl" ELSE "cache-c-sl-tl-np"
CacheDirPath(cfg) == Path(Cwd, cache_dir(cfg))
log(cfg) == join(cache_dir(cfg), "training.log")

\* the corpora and the caller's language model named by the configuration
CORPUS_SL == Path(Cwd, "corpus.sl")
CORPUS_TL == Path(Cwd, "corpus.tl")
TL_MODEL  == Path(Cwd, "supplied.lm")
DevNull   == Path("/dev", "null")

\* the file names of the recipes
sl_tagged(cd)      == join(cd, "c.tagged.sl")
tl_tagged(cd)      == join(cd, "c.tagged.tl")
lines(cd)          == join(cd, "c.lines")
clean_tagged(cd)   == join(cd, "c.clean_tagged")
tagged_merged(cd)  == join(cd, "c.tagged-merged.sl-tl")
alignment(cd)      == join(cd, "c.align.sl-tl")
clean_biltrans(cd) == join(cd, "c.clean_biltrans.sl-tl")
phrasetable(cd)    == join(cd, "c.phrasetable.sl-tl")
candidates(cd)     == join(cd, "c.candidates.sl-tl")
freq_lex(cd)       == join(cd, "c.lex.sl-tl")
ngrams_p(cd)       == join(cd, "ngrams")
tmp1               == Path(Cwd, "tmp1")
tmp2               == Path(Cwd, "tmp2")
ambig(cd)          == join(cd, "c.sl-tl.ambig")
multi_trimmed(cd)  == join(cd, "c.sl-tl.multi-trimmed")
ranked(cd)         == join(cd, "c.sl-tl.ranked")
lex_freq(cd)       == join(cd, "c.sl-tl.freq")
ngrams_np(cd)      == join(cd, "c.sl-tl.ngrams")
patterns(cd)       == join(cd, "c.sl-tl.patterns")
tl_lm_default      == Path(Cwd, "c.sl-tl.tl.lm")
Gz(p)              == [p EXCEPT !.gz = TRUE]     \* p + '.gz'

\* the rule file of each recipe
rules(cfg) == IF cfg.IS_PARALLEL THEN Path(Cwd, "c.sl-tl.ngrams-lm-1.lrx")
                                 ELSE Path(Cwd, "c.sl-tl.ngrams-lm-np.lrx")

\* tl_lm as the recipe uses it after the language-model step
tl_lm(cfg) == IF cfg.TL_MODEL THEN TL_MODEL ELSE tl_lm_default

\* get_mode_after_biltrans: the stages that follow bilingual lookup
mode_after_biltrans == <<Cmd("lrx-proc", <<"-m">>)>>

(***************************************************************************)
(* A statement of a recipe.  kind is                                       *)
(*   "pipe_wait"  with open(out, 'w'): pipe(cmds, stdin, out, log, n).wait()*)
(*   "pipe"       with open(out, 'w'): pipe(cmds, stdin, out, log)          *)
(*   "call"       call(cmd, stdin=, stdout=out, stderr=log)                 *)
(*   "inproc"     work done in the Python process itself: an extraction     *)
(*                routine under redirect_stdout, a read/replace/write, the  *)
(*                gzip copy                                                 *)
(*   "open"       open(out, 'w') kept open for later statements             *)
(*   "remove"     os.remove(out)                                            *)
(* reads are the files named as arguments, stdin the file given as stdin;  *)
(* mode is how the parent opens out: "w", "r+", or "" when it does not.    *)
(***************************************************************************)
Stmt(name, kind, cmdlist, stdin, reads, out, mode, n) ==
    [name |-> name, kind |-> kind, cmds |-> cmdlist, stdin |-> stdin,
     reads |-> reads, out |-> out, mode |-> mode, n |-> n]

Tagger(dir) == Cmd("apertium", <<"-d", "LANG_DATA", dir>>)

\* parallel_training from "Tagging the source side corpus" to "return rules"
parallel_training(cd, n, cfg) == <<
    Stmt("tag_sl", "pipe_wait",
         <<Cmd("head", <<"-n", Str(n)>>), Cmd("tr", <<"\\/$^@", "?">>),
           Tagger("sl-tl-tagger"), Cmd("apertium-pretransfer", <<>>)>>,
         CORPUS_SL, {}, sl_tagged(cd), "w", n),
    Stmt("tag_tl", "pipe_wait",
         <<Cmd("head", <<"-n", Str(n)>>), Cmd("tr", <<"\\/$^@", "?">>),
           Tagger("tl-sl-tagger"), Cmd("apertium-pretransfer", <<>>)>>,
         CORPUS_TL, {}, tl_tagged(cd), "w", n),
    Stmt("seq", "call", <<Cmd("seq", <<"1", Str(n)>>)>>,
         NoPath, {}, lines(cd), "w", NoneLines),
    Stmt("paste_grep", "pipe_wait",
         <<Cmd("paste", <<>>), Cmd("grep", <<"<*\t*<">>)>>,
         NoPath, {lines(cd), sl_tagged(cd), tl_tagged(cd)}, clean_tagged(cd),
         "w", NoneLines),
    Stmt("cut_lines", "call", <<Cmd("cut", <<"-f", "1">>)>>,
         clean_tagged(cd), {}, lines(cd), "w", NoneLines),
    Stmt("cut_sl", "pipe_wait",
         <<Cmd("cut", <<"-f", "2">>), Cmd("sed", <<"s/ /~~/g">>),
           Cmd("sed", <<"s/\\$[^\\^]*/$ /g">>)>>,
         clean_tagged(cd), {}, sl_tagged(cd), "w", NoneLines),
    Stmt("cut_tl", "pipe_wait",
         <<Cmd("cut", <<"-f", "3">>), Cmd("sed", <<"s/ /~~/g">>),
           Cmd("sed", <<"s/\\$[^\\^]*/$ /g">>)>>,
         clean_tagged(cd), {}, tl_tagged(cd), "w", NoneLines),
    Stmt("rm_clean_tagged", "remove", <<>>, NoPath, {}, clean_tagged(cd), "",
         NoneLines),
    Stmt("paste_merged", "call", <<Cmd("paste", <<"-d", "||| ">>)>>,
         DevNull, {tl_tagged(cd), sl_tagged(cd)}, tagged_merged(cd), "w",
         NoneLines),
    Stmt("fast_align", "call", <<Cmd("FAST_ALIGN", <<"-d", "-o", "-v">>)>>,
         NoPath, {tagged_merged(cd)}, alignment(cd), "w", NoneLines),
    Stmt("restore_sl", "inproc", <<>>, NoPath, {sl_tagged(cd)}, sl_tagged(cd),
         "r+", NoneLines),
    Stmt("restore_tl", "inproc", <<>>, NoPath, {tl_tagged(cd)}, tl_tagged(cd),
         "r+", NoneLines),
    Stmt("open_tmp1", "open", <<>>, NoPath, {}, tmp1, "w", NoneLines),
    Stmt("open_tmp2", "open", <<>>, NoPath, {}, tmp2, "w", NoneLines),
    Stmt("pto_tl", "call", <<Cmd("process-tagger-output", <<"tl-sl">>)>>,
         tl_tagged(cd), {}, tmp1, "", NoneLines),
    Stmt("pto_sl", "call", <<Cmd("process-tagger-output", <<"sl-tl">>)>>,
         sl_tagged(cd), {}, tmp2, "", NoneLines),
    Stmt("pto_biltrans", "call", <<Cmd("process-tagger-output", <<"sl-tl">>)>>,
         sl_tagged(cd), {}, clean_biltrans(cd), "w", NoneLines),
    Stmt("phrasetable", "pipe_wait",
         <<Cmd("paste", <<>>), Cmd("sed", <<"s/\t/ ||| /g">>)>>,
         NoPath, {tmp1, tmp2, alignment(cd)}, phrasetable(cd), "w", NoneLines),
    Stmt("rm_tmp1", "remove", <<>>, NoPath, {}, tmp1, "", NoneLines),
    Stmt("rm_tmp2", "remove", <<>>, NoPath, {}, tmp2, "", NoneLines),
    Stmt("extract_sentences", "inproc", <<>>, NoPath,
         {phrasetable(cd), clean_biltrans(cd)}, candidates(cd), "w", NoneLines),
    Stmt("extract_freq_lexicon", "inproc", <<>>, NoPath,
         {candidates(cd)}, freq_lex(cd), "w", NoneLines),
    Stmt("ngram_count_patterns", "inproc", <<>>, NoPath,
         {freq_lex(cd), candidates(cd)}, ngrams_p(cd), "w", NoneLines),
    Stmt("ngrams_to_rules", "inproc", <<>>, NoPath, {ngrams_p(cd)}, rules(cfg),
         "w", NoneLines) >>

\* non_parallel_training from "Tagging ..." to os.remove(clean_tagged)
non_parallel_clean(cd, n) == <<
    Stmt("tag_sl", "pipe_wait",
         <<Cmd("head", <<"-n", Str(n)>>), Tagger("sl-tl-tagger"),
           Cmd("apertium-pretransfer", <<>>)>>,
         CORPUS_SL, {}, sl_tagged(cd), "w", n),
    Stmt("seq", "call", <<Cmd("seq", <<"0", Str(n - 1)>>)>>,
         NoPath, {}, lines(cd), "w", NoneLines),
    Stmt("paste_grep", "pipe_wait",
         <<Cmd("paste", <<>>), Cmd("grep", <<"<*\t*<">>)>>,
         NoPath, {lines(cd), sl_tagged(cd)}, clean_tagged(cd), "w", NoneLines),
    Stmt("cut_lines", "call", <<Cmd("cut", <<"-f", "1">>)>>,
         clean_tagged(cd), {}, lines(cd), "w", NoneLines),
    Stmt("cut_sl", "call", <<Cmd("cut", <<"-f", "2">>)>>,
         clean_tagged(cd), {}, sl_tagged(cd), "w", NoneLines),
    Stmt("rm_clean_tagged", "remove", <<>>, NoPath, {}, clean_tagged(cd), "",
         NoneLines) >>

\* faulty variant: the language model is built whether or not TL_MODEL is configured
language_model_always(cfg) == <<
    Stmt("build_lm", "call", <<Cmd("build-lm.sh", <<"-t", "tmp">>)>>,
         NoPath, {CORPUS_TL}, Gz(tl_lm_default), "", NoneLines),
    Stmt("gunzip", "inproc", <<>>, NoPath, {Gz(tl_lm_default)}, tl_lm_default,
         "w", NoneLines),
    Stmt("rm_gz", "remove", <<>>, NoPath, {}, Gz(tl_lm_default), "",
         NoneLines) >>

\* faulty variant: the compressed model is left behind
language_model_keep_gz(cfg) ==
    IF cfg.TL_MODEL THEN <<>>
    ELSE <<
    Stmt("build_lm", "call", <<Cmd("build-lm.sh", <<"-t", "tmp">>)>>,
         NoPath, {CORPUS_TL}, Gz(tl_lm_default), "", NoneLines),
    Stmt("gunzip", "inproc", <<>>, NoPath, {Gz(tl_lm_default)}, tl_lm_default,
         "w", NoneLines) >>

\* non_parallel_training: if 'TL_MODEL' in config ... else ... os.remove(tl_lm+'.gz')
language_model(cfg) ==
    IF cfg.TL_MODEL THEN <<>>
    ELSE <<
    Stmt("build_lm", "call", <<Cmd("build-lm.sh", <<"-t", "tmp">>)>>,
         NoPath, {CORPUS_TL}, Gz(tl_lm_default), "", NoneLines),
    Stmt("gunzip", "inproc", <<>>, NoPath, {Gz(tl_lm_default)}, tl_lm_default,
         "w", NoneLines),
    Stmt("rm_gz", "remove", <<>>, NoPath, {}, Gz(tl_lm_default), "",
         NoneLines) >>

\* non_parallel_training from "Running multitrans" to "return rules"
non_parallel_rules(cd, cfg) == <<
    Stmt("multitrans_ambig", "pipe",
         <<Cmd("multitrans", <<"-b", "-t", "-n", "-f", "sl-tl">>)>>,
         sl_tagged(cd), {}, ambig(cd), "w", NoneLines),
    Stmt("multitrans_trimmed", "pipe",
         <<Cmd("multitrans", <<"-m", "-t", "-f", "sl-tl">>)>>,
         sl_tagged(cd), {}, multi_trimmed(cd), "w", NoneLines),
    Stmt("rank", "pipe_wait",
         mode_after_biltrans \o <<Cmd("irstlm-ranker", <<"-f">>)>>,
         multi_trimmed(cd), {tl_lm(cfg), multi_trimmed(cd)}, ranked(cd), "w",
         NoneLines),
    Stmt("extract_frac_freq", "inproc", <<>>, NoPath,
         {ambig(cd), ranked(cd)}, lex_freq(cd), "w", NoneLines),
    Stmt("count_patterns_ngrams", "inproc", <<>>, NoPath,
         {ambig(cd), ranked(cd)}, ngrams_np(cd), "w", NoneLines),
    Stmt("ngram_pruning_frac", "inproc", <<>>, NoPath,
         {lex_freq(cd), ngrams_np(cd)}, patterns(cd), "w", NoneLines),
    Stmt("ngrams_to_rules", "inproc", <<>>, NoPath, {patterns(cd)}, rules(cfg),
         "w", NoneLines) >>

non_parallel_training(cd, n, cfg) ==
    non_parallel_clean(cd, n) \o language_model(cfg) \o non_parallel_rules(cd, cfg)

\* the configurations of the model
Configs == [IS_PARALLEL : BOOLEAN, TL_MODEL : BOOLEAN,
            TRAINING_LINES : 0..MaxTraining, CORPUS_LINES : 0..MaxTraining]

\* the statements main runs for a configuration and a line budget
RecipeFor(cfg, n) ==
    IF cfg.IS_PARALLEL
    THEN parallel_training(cache_dir(cfg), n, cfg)
    ELSE non_parallel_training(cache_dir(cfg), n, cfg)

\* the recipes of a configuration for the budgets n, n+1, ..., MaxTraining
RECURSIVE RecipesFrom(_, _)
RecipesFrom(cfg, n) ==
    IF n > MaxTraining THEN <<>>
    ELSE <<RecipeFor(cfg, n)>> \o RecipesFrom(cfg, n + 1)

\* a recipe reads IS_PARALLEL and TL_MODEL from the configuration, and
\* nothing else: the tables of the three kinds of run
KindOf(parallel, model) ==
    [IS_PARALLEL |-> parallel, TL_MODEL |-> model,
     TRAINING_LINES |-> 0, CORPUS_LINES |-> 0]
ParallelRecipes      == RecipesFrom(KindOf(TRUE, FALSE), 0)
BuiltModelRecipes    == RecipesFrom(KindOf(FALSE, FALSE), 0)
SuppliedModelRecipes == RecipesFrom(KindOf(FALSE, TRUE), 0)

\* the statements of each recipe, per configuration and line budget
RecipeOf ==
    [cfg \in Configs |-> [n \in 0..MaxTraining |->
        (IF cfg.IS_PARALLEL THEN ParallelRecipes
         ELSE IF cfg.TL_MODEL THEN SuppliedModelRecipes
         ELSE BuiltModelRecipes)[n + 1]]]

\* the statements of the recipe main selects
Recipe == RecipeOf[config][training_lines]

(***************************************************************************)
(* The run's state.                                                        *)
(***************************************************************************)
RunIdle ==
    /\ pc = "idle" /\ ip = 0 /\ training_lines = 0
    /\ config = [IS_PARALLEL |-> FALSE, TL_MODEL |-> FALSE,
                 TRAINING_LINES |-> 0, CORPUS_LINES |-> 0]
    /\ fs = {} /\ jobs = {} /\ muts = {} /\ asked = {} /\ started = <<>>
    /\ reads_log = {} /\ reported = NoPath /\ warned = FALSE /\ nonzero = FALSE
    /\ exit_code = NoExit

\* what an earlier run with the same key left in the cache directory
OldCache(cfg) ==
    {CacheDirPath(cfg), log(cfg), lines(cache_dir(cfg)), sl_tagged(cache_dir(cfg))}

\* the files inside directory d
Inside(d, files) == {f \in files : f.dir = d}

\* a configuration check_config accepted (CORPUS_LINES is the length of the
\* file CORPUS_SL names), and the files present when main starts.  TL_MODEL
\* and an old language-model file are read by the non-parallel recipe only,
\* so they vary only there.
InitRun ==
    /\ config \in {c \in Configs : c.IS_PARALLEL => ~c.TL_MODEL}
    /\ \E old_cache \in BOOLEAN, old_rules \in BOOLEAN,
          old_lm \in (IF config.IS_PARALLEL THEN {FALSE} ELSE BOOLEAN) :
          fs = {CORPUS_SL, CORPUS_TL}
               \cup (IF config.TL_MODEL THEN {TL_MODEL} ELSE {})
               \cup (IF old_cache THEN OldCache(config) ELSE {})
               \cup (IF old_rules THEN {rules(config)} ELSE {})
               \cup (IF old_lm THEN {tl_lm_default} ELSE {})
    /\ pc = "main" /\ ip = 0 /\ training_lines = 0
    /\ jobs = {} /\ muts = {} /\ asked = {} /\ started = <<>>
    /\ reads_log = {} /\ reported = NoPath /\ warned = FALSE /\ nonzero = FALSE
    /\ exit_code = NoExit

Mut(op, path, by) == [op |-> op, path |-> path, by |-> by]

\* open(path, 'w') / open(path, 'a'): creates the file, 'w' empties an old one
OpenMut(path, mode, by) ==
    IF path \notin fs THEN {Mut("create", path, by)}
    ELSE IF mode = "w" THEN {Mut("truncate", path, by)} ELSE {}

\* faulty variant: the old directory is removed before the user is asked
MainCacheGateWipeFirst ==
    /\ pc = "main"
    /\ LET d == CacheDirPath(config)
       IN  IF d \in fs
           THEN /\ asked' = asked \cup {d}
                /\ fs' = fs \ ({d} \cup Inside(cache_dir(config), fs))
                /\ muts' = muts \cup {Mut("rmtree", d, "main")}
                /\ \E answer \in BOOLEAN :
                      IF answer
                      THEN pc' = "mkdir" /\ exit_code' = exit_code
                      ELSE pc' = "aborted" /\ exit_code' = 0
           ELSE /\ pc' = "mkdir"
                /\ UNCHANGED <<asked, fs, muts, exit_code>>
    /\ UNCHANGED <<config, warned, nonzero, jobs, ip, training_lines, started, reads_log, reported>>

\* faulty variant: a confirmed overwrite keeps what the directory holds
MainCacheGateNoWipe ==
    /\ pc = "main"
    /\ LET d == CacheDirPath(config)
       IN  IF d \in fs
           THEN /\ asked' = asked \cup {d}
                /\ \E answer \in BOOLEAN :
                      IF answer
                      THEN pc' = "mkdir" /\ exit_code' = exit_code
                      ELSE pc' = "aborted" /\ exit_code' = 0
                /\ UNCHANGED <<fs, muts>>
           ELSE /\ pc' = "mkdir"
                /\ UNCHANGED <<asked, fs, muts, exit_code>>
    /\ UNCHANGED <<config, warned, nonzero, jobs, ip, training_lines, started, reads_log, reported>>

\* main: if os.path.isdir(cache_dir): query or exit(0); shutil.rmtree(cache_dir)
MainCacheGate ==
    /\ pc = "main"
    /\ LET d == CacheDirPath(config)
       IN  IF d \in fs
           THEN /\ asked' = asked \cup {d}
                /\ \E answer \in BOOLEAN :
                      IF answer
                      THEN /\ fs' = fs \ ({d} \cup Inside(cache_dir(config), fs))
                           /\ muts' = muts \cup {Mut("rmtree", d, "main")}
                           /\ pc' = "mkdir"
                           /\ exit_code' = exit_code
                      ELSE /\ pc' = "aborted"
                           /\ exit_code' = 0
                           /\ UNCHANGED <<fs, muts>>
           ELSE /\ pc' = "mkdir"
                /\ UNCHANGED <<asked, fs, muts, exit_code>>
    /\ UNCHANGED <<config, warned, nonzero, jobs, ip, training_lines, started, reads_log, reported>>

\* main: os.mkdir(cache_dir)
MainMkdir ==
    /\ pc = "mkdir"
    /\ fs' = fs \cup {CacheDirPath(config)}
    /\ muts' = muts \cup {Mut("mkdir", CacheDirPath(config), "main")}
    /\ pc' = "open_log"
    /\ UNCHANGED <<config, warned, nonzero, jobs, ip, training_lines, asked, started, reads_log,
                   reported, exit_code>>

\* main: with open(log, 'a') as log_file: the recipe is called
MainOpenLog ==
    /\ pc = "open_log"
    /\ fs' = fs \cup {log(config)}
    /\ muts' = muts \cup OpenMut(log(config), "a", "main")
    /\ pc' = "rules_gate"
    /\ UNCHANGED <<config, warned, nonzero, jobs, ip, training_lines, asked, started, reads_log,
                   reported, exit_code>>

\* faulty variant: a confirmed overwrite leaves the old rule file in place
RulesGateKeep ==
    /\ pc = "rules_gate"
    /\ LET r == rules(config)
       IN  IF r \in fs
           THEN /\ asked' = asked \cup {r}
                /\ \E answer \in BOOLEAN :
                      IF answer
                      THEN /\ pc' = IF config.IS_PARALLEL THEN "count_lines" ELSE "lm_gate"
                           /\ exit_code' = exit_code
                      ELSE /\ pc' = "aborted"
                           /\ exit_code' = 1
                /\ UNCHANGED <<fs, muts>>
           ELSE /\ pc' = IF config.IS_PARALLEL THEN "count_lines" ELSE "lm_gate"
                /\ UNCHANGED <<asked, fs, muts, exit_code>>
    /\ UNCHANGED <<config, warned, nonzero, jobs, ip, training_lines, started, reads_log, reported>>

\* the recipes: if os.path.isfile(rules): query or exit(1); os.remove(rules)
RulesGate ==
    /\ pc = "rules_gate"
    /\ LET r == rules(config)
       IN  IF r \in fs
           THEN /\ asked' = asked \cup {r}
                /\ \E answer \in BOOLEAN :
                      IF answer
                      THEN /\ fs' = fs \ {r}
                           /\ muts' = muts \cup {Mut("remove", r, "rules_gate")}
                           /\ pc' = IF config.IS_PARALLEL THEN "count_lines" ELSE "lm_gate"
                           /\ exit_code' = exit_code
                      ELSE /\ pc' = "aborted"
                           /\ exit_code' = 1
                           /\ UNCHANGED <<fs, muts>>
           ELSE /\ pc' = IF config.IS_PARALLEL THEN "count_lines" ELSE "lm_gate"
                /\ UNCHANGED <<asked, fs, muts, exit_code>>
    /\ UNCHANGED <<config, warned, nonzero, jobs, ip, training_lines, started, reads_log, reported>>

\* non_parallel_training: if 'TL_MODEL' not in config: if os.path.isfile(tl_lm):
\* query or exit(1); os.remove(tl_lm)
LmGate ==
    /\ pc = "lm_gate"
    /\ LET m == tl_lm_default
       IN  IF ~config.TL_MODEL /\ m \in fs
           THEN /\ asked' = asked \cup {m}
                /\ \E answer \in BOOLEAN :
                      IF answer
                      THEN /\ fs' = fs \ {m}
                           /\ muts' = muts \cup {Mut("remove", m, "lm_gate")}
                           /\ pc' = "count_lines"
                           /\ exit_code' = exit_code
                      ELSE /\ pc' = "aborted"
                           /\ exit_code' = 1
                           /\ UNCHANGED <<fs, muts>>
           ELSE /\ pc' = "count_lines"
                /\ UNCHANGED <<asked, fs, muts, exit_code>>
    /\ UNCHANGED <<config, warned, nonzero, jobs, ip, training_lines, started, reads_log, reported>>

\* faulty variant: the configured number is used even when the corpus is
\* shorter
CountLinesNoClamp ==
    /\ pc = "count_lines"
    /\ training_lines' = config.TRAINING_LINES
    /\ warned' = (config.TRAINING_LINES > config.CORPUS_LINES)
    /\ ip' = 1
    /\ pc' = "stmt"
    /\ UNCHANGED <<config, nonzero, fs, jobs, muts, asked, started, reads_log,
                   reported, exit_code>>

\* the recipes: training_lines = len(corpus_sl.readlines()), or TRAINING_LINES
\* when that is not greater; the warning is printed when it is greater
CountLines ==
    /\ pc = "count_lines"
    /\ training_lines' = IF config.TRAINING_LINES > config.CORPUS_LINES
                         THEN config.CORPUS_LINES
                         ELSE config.TRAINING_LINES
    /\ warned' = (config.TRAINING_LINES > config.CORPUS_LINES)
    /\ ip' = 1
    /\ pc' = "stmt"
    /\ UNCHANGED <<config, nonzero, fs, jobs, muts, asked, started, reads_log,
                   reported, exit_code>>

(***************************************************************************)
(* The statements of the recipe.  A job is a started chain, call or        *)
(* in-process routine: `last` is the state of its last process (the one    *)
(* pipe returns and the one that writes `out`), `rest` that of the stages  *)
(* before it, which nothing waits for.  A job leaves the table when all of *)
(* it has exited.                                                          *)
(***************************************************************************)
NextPc == IF ip = Len(Recipe) THEN "report" ELSE "stmt"
NextIp == IF ip = Len(Recipe) THEN ip ELSE ip + 1

AllReads(s) == s.reads \cup (IF s.stdin = NoPath THEN {} ELSE {s.stdin})

\* the parent opens s.out as s.mode says and starts nprocs processes
Launch(s, nprocs) ==
    /\ fs' = fs \cup {s.out}
    /\ muts' = muts \cup (IF s.mode = "w" THEN OpenMut(s.out, "w", s.name) ELSE {})
                    \cup {Mut("write", s.out, s.name)}
    /\ reads_log' = reads_log \cup
          {[reader |-> s.name, path |-> j.out, writer |-> j.name] :
              j \in {w \in jobs : w.last = "running" /\ w.out \in AllReads(s)}}
    /\ jobs' = jobs \cup
          {[name |-> s.name, reads |-> AllReads(s), out |-> s.out,
            ext  |-> s.kind # "inproc",
            last |-> "running",
            rest |-> IF nprocs > 1 THEN "running" ELSE "exited"]}
    /\ started' = Append(started, s.name)

StdinOf(s) == IF s.stdin = NoPath THEN NoStdin ELSE FileStdin(s.stdin)

\* with open(out, 'w') as f: pipe(cmds, inp, f, log, n).wait()  -- the call
StartPipeWait ==
    /\ pc = "stmt"
    /\ Recipe[ip].kind = "pipe_wait"
    /\ LET s == Recipe[ip]
           r == pipe(s.cmds, StdinOf(s), s.out, log(config), s.n, pv)
       IN  /\ r.ret # NoneHandle
           /\ Launch(s, Len(r.procs))
    /\ pc' = "wait"
    /\ UNCHANGED <<config, warned, nonzero, ip, training_lines, asked, reported, exit_code>>

\* with open(out, 'w') as f: pipe(cmds, inp, f, log)  -- the handle is dropped
StartPipe ==
    /\ pc = "stmt"
    /\ Recipe[ip].kind = "pipe"
    /\ LET s == Recipe[ip]
           r == pipe(s.cmds, StdinOf(s), s.out, log(config), s.n, pv)
       IN  Launch(s, Len(r.procs))
    /\ pc' = NextPc
    /\ ip' = NextIp
    /\ UNCHANGED <<config, warned, nonzero, training_lines, asked, reported, exit_code>>

\* call(cmd, stdin=, stdout=, stderr=log): Popen, then wait
StartCall ==
    /\ pc = "stmt"
    /\ Recipe[ip].kind = "call"
    /\ Launch(Recipe[ip], 1)
    /\ pc' = "wait"
    /\ UNCHANGED <<config, warned, nonzero, ip, training_lines, asked, reported, exit_code>>

\* an extraction routine, a read/replace/write or the gzip copy begins
StartInproc ==
    /\ pc = "stmt"
    /\ Recipe[ip].kind = "inproc"
    /\ Launch(Recipe[ip], 1)
    /\ pc' = "wait"
    /\ UNCHANGED <<config, warned, nonzero, ip, training_lines, asked, reported, exit_code>>

\* open(path, 'w') held open for the statements that follow
OpenFile ==
    /\ pc = "stmt"
    /\ Recipe[ip].kind = "open"
    /\ LET s == Recipe[ip]
       IN  /\ fs' = fs \cup {s.out}
           /\ muts' = muts \cup OpenMut(s.out, "w", s.name)
           /\ started' = Append(started, s.name)
    /\ pc' = NextPc
    /\ ip' = NextIp
    /\ UNCHANGED <<config, warned, nonzero, jobs, training_lines, asked, reads_log, reported,
                   exit_code>>

\* os.remove(path)
Remove ==
    /\ pc = "stmt"
    /\ Recipe[ip].kind = "remove"
    /\ LET s == Recipe[ip]
       IN  /\ fs' = fs \ {s.out}
           /\ muts' = muts \cup {Mut("remove", s.out, s.name)}
           /\ started' = Append(started, s.name)
    /\ pc' = NextPc
    /\ ip' = NextIp
    /\ UNCHANGED <<config, warned, nonzero, jobs, training_lines, asked, reads_log, reported,
                   exit_code>>

\* faulty variant: a non-zero exit status ends the run
WaitJobChecked ==
    /\ pc = "wait"
    /\ \A j \in jobs : j.name = Recipe[ip].name => j.last = "exited"
    /\ IF nonzero
       THEN pc' = "aborted" /\ exit_code' = 1 /\ ip' = ip
       ELSE pc' = NextPc /\ ip' = NextIp /\ exit_code' = exit_code
    /\ UNCHANGED <<config, warned, nonzero, fs, jobs, training_lines, muts, asked,
                   started, reads_log, reported>>

\* .wait() / call / the routine returns: the job's last process has exited;
\* the value returned (the exit status) is dropped
WaitJob ==
    /\ pc = "wait"
    /\ \A j \in jobs : j.name = Recipe[ip].name => j.last = "exited"
    /\ pc' = NextPc
    /\ ip' = NextIp
    /\ UNCHANGED <<config, warned, nonzero, fs, jobs, training_lines, muts, asked,
                   started, reads_log, reported, exit_code>>

\* an external process ends with status zero or not; an in-process routine
\* that returns has no status
NonZeroAfter(j) == IF j.ext THEN {nonzero, TRUE} ELSE {nonzero}

\* the last process of a job exits, with some status
LastExit ==
    /\ \E j \in jobs :
          /\ j.last = "running"
          /\ jobs' = (jobs \ {j}) \cup
                (IF j.rest = "exited" THEN {} ELSE {[j EXCEPT !.last = "exited"]})
          /\ nonzero' \in NonZeroAfter(j)
    /\ UNCHANGED <<pc, config, warned, fs, ip, training_lines, muts, asked, started,
                   reads_log, reported, exit_code>>

\* the stages before the last have all exited, with some status
RestExit ==
    /\ \E j \in jobs :
          /\ j.rest = "running"
          /\ jobs' = (jobs \ {j}) \cup
                (IF j.last = "exited" THEN {} ELSE {[j EXCEPT !.rest = "exited"]})
          /\ nonzero' \in NonZeroAfter(j)
    /\ UNCHANGED <<pc, config, warned, fs, ip, training_lines, muts, asked, started,
                   reads_log, reported, exit_code>>

\* main: print(f"Training complete! Generated lrx file: {rules}")
Report ==
    /\ pc = "report"
    /\ reported' = rules(config)
    /\ pc' = "done"
    /\ UNCHANGED <<config, warned, nonzero, fs, jobs, ip, training_lines, muts, asked, started,
                   reads_log, exit_code>>

(***************************************************************************)
(* SpecQuery: query(question, default) and the lines typed in answer.      *)
(* A line is a sequence of characters; str.lower maps each upper-case      *)
(* letter to its lower-case letter and leaves every other character alone. *)
(***************************************************************************)
NoneDefault == <<"N", "o", "n", "e">>     \* default=None
YesWord     == <<"y", "e", "s">>
NoWord      == <<"n", "o">>

UpperCase == {"Y", "E", "S", "N", "O"}

LowerChar(c) ==
    CASE c = "Y" -> "y" [] c = "E" -> "e" [] c = "S" -> "s"
      [] c = "N" -> "n" [] c = "O" -> "o" [] OTHER -> c

lower(str) == [i \in 1..Len(str) |-> LowerChar(str[i])]

\* valid = {"yes": True, "y": True, "ye": True, "no": False, "n": False}
valid ==
    [w \in {YesWord, <<"y">>, <<"y", "e">>, NoWord, <<"n">>} |->
        IF w \in {YesWord, <<"y">>, <<"y", "e">>} THEN "True" ELSE "False"]

\* the lines a user may type
InputLines ==
    {<<>>, <<"y">>, <<"Y">>, <<"y", "E">>, <<"Y", "E", "S">>, <<"N">>,
     <<"n", "O">>, <<"m">>}

QueryIdle ==
    /\ q_default = NoneDefault /\ q_typed = <<>> /\ q_pos = 0
    /\ q_prompts = 0 /\ q_hints = 0 /\ q_ret = "none" /\ qpc = "idle"

\* query is called with default None, "yes" or "no"
InitQuery ==
    /\ q_default \in {NoneDefault, YesWord, NoWord}
    /\ q_typed \in UNION {[1..n -> InputLines] : n \in 0..MaxInputs}
    /\ q_pos = 0 /\ q_prompts = 0 /\ q_hints = 0
    /\ q_ret = "none" /\ qpc = "entry"

\* the prompt is chosen; a default that is neither None nor "no" becomes "yes"
QueryEntry ==
    /\ qpc = "entry"
    /\ q_default' = IF q_default = NoneDefault \/ q_default = NoWord
                    THEN q_default ELSE YesWord
    /\ qpc' = "print"
    /\ UNCHANGED <<q_typed, q_pos, q_prompts, q_hints, q_ret>>

\* while True: print(f"{question} {prompt} (default='{default}')?")
QueryPrint ==
    /\ qpc = "print"
    /\ q_prompts' = q_prompts + 1
    /\ qpc' = "input"
    /\ UNCHANGED <<q_default, q_typed, q_pos, q_hints, q_ret>>

\* faulty variant: the typed line is compared as typed
QueryInputAsTyped ==
    /\ qpc = "input"
    /\ q_pos < Len(q_typed)
    /\ LET choice == q_typed[q_pos + 1]
       IN  /\ q_pos' = q_pos + 1
           /\ IF q_default # NoneDefault /\ choice = <<>>
              THEN q_ret' = valid[q_default] /\ qpc' = "returned"
                   /\ UNCHANGED q_hints
              ELSE IF choice \in DOMAIN valid
              THEN q_ret' = valid[choice] /\ qpc' = "returned"
                   /\ UNCHANGED q_hints
              ELSE q_hints' = q_hints + 1 /\ qpc' = "print"
                   /\ UNCHANGED q_ret
    /\ UNCHANGED <<q_default, q_typed, q_prompts>>

\* choice = input().lower(), then the three branches of the loop body
QueryInput ==
    /\ qpc = "input"
    /\ q_pos < Len(q_typed)
    /\ LET choice == lower(q_typed[q_pos + 1])
       IN  /\ q_pos' = q_pos + 1
           /\ IF q_default # NoneDefault /\ choice = <<>>
              THEN q_ret' = valid[q_default] /\ qpc' = "returned"
                   /\ UNCHANGED q_hints
              ELSE IF choice \in DOMAIN valid
              THEN q_ret' = valid[choice] /\ qpc' = "returned"
                   /\ UNCHANGED q_hints
              ELSE q_hints' = q_hints + 1 /\ qpc' = "print"
                   /\ UNCHANGED q_ret
    /\ UNCHANGED <<q_default, q_typed, q_prompts>>

\* input() at the end of the input: EOFError leaves query without a result
QueryEof ==
    /\ qpc = "input"
    /\ q_pos = Len(q_typed)
    /\ qpc' = "eof"
    /\ UNCHANGED <<q_default, q_typed, q_pos, q_prompts, q_hints, q_ret>>

(***************************************************************************)
(* SpecMultitrans: the block of non_parallel_training that starts          *)
(* multitrans twice on the open file f_in.  Popen(stdin=f_in) hands each   *)
(* child a duplicate of the parent's descriptor: the parent and the two    *)
(* children share one file offset.  A read takes the block at the offset   *)
(* and advances the offset; a read at the end of the file is the end of    *)
(* the child's input.  Neither child is waited for.                        *)
(***************************************************************************)
Children == {"ambig", "trimmed"}

MultIdle ==
    /\ f_in_len = 0 /\ f_in_off = 0
    /\ child = [c \in Children |-> "unborn"]
    /\ consumed = [c \in Children |-> <<>>]
    /\ mpc = "idle"

\* with open(sl_tagged) as f_in:
InitMult ==
    /\ f_in_len \in 0..MaxBlocks
    /\ f_in_off = 0
    /\ child = [c \in Children |-> "unborn"]
    /\ consumed = [c \in Children |-> <<>>]
    /\ mpc = "popen_ambig"

\* pipe([['multitrans', '-b', '-t', '-n', '-f', ...]], f_in, f_out, log)
PopenAmbig ==
    /\ mpc = "popen_ambig"
    /\ child' = [child EXCEPT !["ambig"] = "reading"]
    /\ mpc' = "seek"
    /\ UNCHANGED <<f_in_len, f_in_off, consumed>>

\* f_in.seek(0)
SeekStart ==
    /\ mpc = "seek"
    /\ f_in_off' = 0
    /\ mpc' = "popen_trimmed"
    /\ UNCHANGED <<f_in_len, child, consumed>>

\* pipe([['multitrans', '-m', '-t', '-f', ...]], f_in, f_out, log)
PopenTrimmed ==
    /\ mpc = "popen_trimmed"
    /\ child' = [child EXCEPT !["trimmed"] = "reading"]
    /\ mpc' = "rank"
    /\ UNCHANGED <<f_in_len, f_in_off, consumed>>

\* a multitrans process reads its standard input
ChildRead ==
    /\ \E c \in Children :
          /\ child[c] = "reading"
          /\ IF f_in_off < f_in_len
             THEN /\ consumed' = [consumed EXCEPT ![c] = Append(@, f_in_off + 1)]
                  /\ f_in_off' = f_in_off + 1
                  /\ UNCHANGED child
             ELSE /\ child' = [child EXCEPT ![c] = "eof"]
                  /\ UNCHANGED <<consumed, f_in_off>>
    /\ UNCHANGED <<f_in_len, mpc>>

(***************************************************************************)
(* SpecTwoRuns: two runs of main in one working directory, with different  *)
(* cache-directory names.  A run creates its cache directory and its log   *)
(* and then touches the output path of each statement of its recipe, in    *)
(* program order; the steps of the two runs interleave freely.  The paths  *)
(* of the model are those of corpus id "c": a run with corpus id k names   *)
(* the same path with k wherever the source interpolates config['CORPUS'], *)
(* that is in the cache directory's name and in every file name of the     *)
(* working directory except tmp1 and tmp2.                                 *)
(***************************************************************************)
Runs      == {1, 2}
CorpusIds == {"a", "b"}

\* the path p as a run with corpus id k names it
Named(k, p) ==
    [corpus |-> IF p.dir # Cwd \/ p \notin {tmp1, tmp2} THEN k ELSE "",
     path   |-> p]

\* the output paths of the statements of a recipe from the i-th on
RECURSIVE OutsFrom(_, _)
OutsFrom(recipe, i) ==
    IF i > Len(recipe) THEN <<>>
    ELSE <<recipe[i].out>> \o OutsFrom(recipe, i + 1)

\* the paths a run of this kind creates, writes or deletes, in program order
Touches(kind) ==
    <<CacheDirPath(kind), log(kind)>> \o OutsFrom(RecipeOf[kind][0], 1)

TwoIdle ==
    /\ t_cfg = [r \in Runs |-> [corpus |-> "", kind |-> KindOf(FALSE, FALSE)]]
    /\ t_at = [r \in Runs |-> 0]
    /\ t_touched = [r \in Runs |-> {}]

\* the name of a run's cache directory is made of its corpus id and its mode
InitTwo ==
    /\ t_cfg \in [Runs -> [corpus : CorpusIds,
                           kind : {KindOf(TRUE, FALSE), KindOf(FALSE, FALSE),
                                   KindOf(FALSE, TRUE)}]]
    /\ <<t_cfg[1].corpus, t_cfg[1].kind.IS_PARALLEL>>
          # <<t_cfg[2].corpus, t_cfg[2].kind.IS_PARALLEL>>
    /\ t_at = [r \in Runs |-> 0]
    /\ t_touched = [r \in Runs |-> {}]

\* a run makes its next file-system step
RunTouch ==
    /\ \E r \in Runs :
          /\ t_at[r] < Len(Touches(t_cfg[r].kind))
          /\ t_at' = [t_at EXCEPT ![r] = @ + 1]
          /\ t_touched' = [t_touched EXCEPT ![r] =
                @ \cup {Named(t_cfg[r].corpus, Touches(t_cfg[r].kind)[t_at[r] + 1])}]
    /\ UNCHANGED t_cfg

(***************************************************************************)
(* The specifications.                                                     *)
(***************************************************************************)
\* a run on a machine where pv is installed
Init == PipeIdle /\ pv = TRUE /\ CleanIdle /\ QueryIdle /\ MultIdle /\ TwoIdle /\ InitRun

Next ==
    \/ MainCacheGate /\ UNCHANGED <<pipeVars, cleanVars, queryVars, multVars, twoVars>>
    \/ MainMkdir /\ UNCHANGED <<pipeVars, cleanVars, queryVars, multVars, twoVars>>
    \/ MainOpenLog /\ UNCHANGED <<pipeVars, cleanVars, queryVars, multVars, twoVars>>
    \/ RulesGate /\ UNCHANGED <<pipeVars, cleanVars, queryVars, multVars, twoVars>>
    \/ LmGate /\ UNCHANGED <<pipeVars, cleanVars, queryVars, multVars, twoVars>>
    \/ CountLines /\ UNCHANGED <<pipeVars, cleanVars, queryVars, multVars, twoVars>>
    \/ StartPipeWait /\ UNCHANGED <<pipeVars, cleanVars, queryVars, multVars, twoVars>>
    \/ StartPipe /\ UNCHANGED <<pipeVars, cleanVars, queryVars, multVars, twoVars>>
    \/ StartCall /\ UNCHANGED <<pipeVars, cleanVars, queryVars, multVars, twoVars>>
    \/ StartInproc /\ UNCHANGED <<pipeVars, cleanVars, queryVars, multVars, twoVars>>
    \/ OpenFile /\ UNCHANGED <<pipeVars, cleanVars, queryVars, multVars, twoVars>>
    \/ Remove /\ UNCHANGED <<pipeVars, cleanVars, queryVars, multVars, twoVars>>
    \/ WaitJob /\ UNCHANGED <<pipeVars, cleanVars, queryVars, multVars, twoVars>>
    \/ LastExit /\ UNCHANGED <<pipeVars, cleanVars, queryVars, multVars, twoVars>>
    \/ RestExit /\ UNCHANGED <<pipeVars, cleanVars, queryVars, multVars, twoVars>>
    \/ Report /\ UNCHANGED <<pipeVars, cleanVars, queryVars, multVars, twoVars>>

Spec == Init /\ [][Next]_vars

NextPipe ==
    \/ CallPipe /\ UNCHANGED <<cleanVars, runVars, queryVars, multVars, twoVars>>
    \/ ProcExit /\ UNCHANGED <<cleanVars, runVars, queryVars, multVars, twoVars>>
    \/ WaitReturn /\ UNCHANGED <<cleanVars, runVars, queryVars, multVars, twoVars>>

PipeInit == InitPipe /\ CleanIdle /\ RunIdle /\ QueryIdle /\ MultIdle /\ TwoIdle

SpecPipe == PipeInit /\ [][NextPipe]_vars

NextClean ==
    \/ SeqLines /\ UNCHANGED <<pipeVars, runVars, queryVars, multVars, twoVars>>
    \/ SeqLinesNp /\ UNCHANGED <<pipeVars, runVars, queryVars, multVars, twoVars>>
    \/ PasteGrep /\ UNCHANGED <<pipeVars, runVars, queryVars, multVars, twoVars>>
    \/ PasteGrepNp /\ UNCHANGED <<pipeVars, runVars, queryVars, multVars, twoVars>>
    \/ CutLines /\ UNCHANGED <<pipeVars, runVars, queryVars, multVars, twoVars>>
    \/ CutSl /\ UNCHANGED <<pipeVars, runVars, queryVars, multVars, twoVars>>
    \/ CutSlNp /\ UNCHANGED <<pipeVars, runVars, queryVars, multVars, twoVars>>
    \/ CutTl /\ UNCHANGED <<pipeVars, runVars, queryVars, multVars, twoVars>>

CleanInit == PipeIdle /\ pv = FALSE /\ InitClean /\ RunIdle /\ QueryIdle /\ MultIdle
             /\ TwoIdle

SpecClean == CleanInit /\ [][NextClean]_vars

NextQuery ==
    \/ QueryEntry /\ UNCHANGED <<pipeVars, cleanVars, runVars, multVars, twoVars>>
    \/ QueryPrint /\ UNCHANGED <<pipeVars, cleanVars, runVars, multVars, twoVars>>
    \/ QueryInput /\ UNCHANGED <<pipeVars, cleanVars, runVars, multVars, twoVars>>
    \/ QueryEof /\ UNCHANGED <<pipeVars, cleanVars, runVars, multVars, twoVars>>

\* the query specification starts with the other components idle
QueryInit == PipeIdle /\ pv = FALSE /\ CleanIdle /\ RunIdle /\ MultIdle /\ TwoIdle
             /\ InitQuery

SpecQuery == QueryInit /\ [][NextQuery]_vars

NextMult ==
    \/ PopenAmbig /\ UNCHANGED <<pipeVars, cleanVars, runVars, queryVars, twoVars>>
    \/ SeekStart /\ UNCHANGED <<pipeVars, cleanVars, runVars, queryVars, twoVars>>
    \/ PopenTrimmed /\ UNCHANGED <<pipeVars, cleanVars, runVars, queryVars, twoVars>>
    \/ ChildRead /\ UNCHANGED <<pipeVars, cleanVars, runVars, queryVars, twoVars>>

\* the multitrans specification starts with the other components idle
MultInit == PipeIdle /\ pv = FALSE /\ CleanIdle /\ RunIdle /\ QueryIdle /\ TwoIdle
            /\ InitMult

SpecMultitrans == MultInit /\ [][NextMult]_vars

NextTwo ==
    \/ RunTouch /\ UNCHANGED <<pipeVars, cleanVars, runVars, queryVars, multVars>>

\* the two-run specification starts with the other components idle
TwoInit == PipeIdle /\ pv = FALSE /\ CleanIdle /\ RunIdle /\ QueryIdle /\ MultIdle
           /\ InitTwo

SpecTwoRuns == TwoInit /\ [][NextTwo]_vars

(***************************************************************************)
(* Properties of pipe (SpecPipe).                                          *)
(***************************************************************************)
AllExited == \A i \in 1..Len(procs) : procs[i].st = "exited"

\* C1: for a non-empty command list, the wait on the handle pipe returned
\* completes only after every process of the chain has exited: no process of
\* the chain is still running when the wait returns.
C1_WaitAfterAllExited == ppc = "waited" => AllExited

\* C7: for the empty command list pipe returns None and starts no process,
\* whatever the input source, the expected count and the monitor's presence.
C7_EmptyListNoProcess ==
    (ppc # "start" /\ cmds_in = <<>>) => (ret = NoneHandle /\ procs = <<>>)

\* C7 witness: pipe was called with the empty list, a count and pv installed
C7_Witness ==
    /\ ppc = "called" /\ cmds_in = <<>>
    /\ expected_lines > 0 /\ pv /\ firstin # NoStdin

MonitorAppended == Len(procs) = Len(cmds_in) + 1

\* the error streams of C8: the stages of the caller's list write to the
\* shared sink; an appended monitor is the last process and writes to
\* sys.stderr
ErrorRouting ==
    /\ Len(procs) \in {Len(cmds_in), Len(cmds_in) + 1}
    /\ \A i \in 1..Len(cmds_in) :
          procs[i].cmd = cmds_in[i] /\ procs[i].stderr = ErrSink
    /\ MonitorAppended =>
          /\ procs[Len(procs)].cmd = PvCmd(expected_lines)
          /\ procs[Len(procs)].stderr = SysStderr
          /\ ret = Len(procs)

HasMarker(str) == \E x \in 1..Len(str) : str[x] = "<"

\* the input lines whose number is in the rewritten .lines artifact
Retained == {i \in 1..Len(corpus) : <<Str(i)>> \in Range(lines_f)}

\* C6: in the parallel recipe a triple (line number, source tags, target
\* tags) is retained iff both
\* tag fields contain a '<'; retained triples keep their order; a dropped
\* triple is in none of the rewritten artifacts.
C6_RetainedIffBothTagged ==
    (cpc = "done" /\ c_parallel) =>
        /\ \A i \in 1..Len(corpus) :
              i \in Retained <=> (HasMarker(corpus[i].sl) /\ HasMarker(corpus[i].tl))
        /\ Len(lines_f) = Cardinality(Retained)
        /\ Len(sl_f) = Len(lines_f) /\ Len(tl_f) = Len(lines_f)
        /\ \A a \in 1..Len(lines_f), b \in 1..Len(lines_f) :
              a < b => \E i \in Retained, j \in Retained :
                          /\ i < j
                          /\ lines_f[a] = <<Str(i)>> /\ lines_f[b] = <<Str(j)>>
        /\ \A a \in 1..Len(lines_f) : \E i \in Retained :
              /\ lines_f[a] = <<Str(i)>>
              /\ sl_f[a] = corpus[i].sl /\ tl_f[a] = corpus[i].tl

(***************************************************************************)
(* Properties of the training run (Spec).                                  *)
(***************************************************************************)
Started(name) == \E i \in 1..Len(started) : started[i] = name

\* C2: no stage reads a cache artifact before the process that produces it
\* has exited: no reader was started while the writer of a file it reads was
\* still running.
C2_NoReadBeforeProducerExit == reads_log = {}

\* C3: when the cache directory exists and the user declines, the run ends
\* with nothing created, modified or deleted inside that directory and no
\* stage started.
C3_RefusalMutatesNothing ==
    (pc = "aborted" /\ exit_code = 0) =>
        /\ asked = {CacheDirPath(config)}
        /\ \A m \in muts :
              m.path # CacheDirPath(config) /\ m.path.dir # cache_dir(config)
        /\ CacheDirPath(config) \in fs
        /\ Inside(cache_dir(config), fs) = Inside(cache_dir(config), OldCache(config))
        /\ started = <<>> /\ jobs = {}

\* C3 witness: the user declined to overwrite an existing cache directory
C3_Witness ==
    /\ pc = "aborted" /\ exit_code = 0
    /\ CacheDirPath(config) \in asked
    /\ log(config) \in fs

\* C4: declining any confirmation prompt ends the run with no file or
\* directory created, modified or deleted, whatever was answered before.
C4_DeclineIsClean == pc = "aborted" => muts = {}

\* C5: the gate on an existing rule file is resolved before any stage
\* starts; from the gate to the final stage the rule file is absent; only
\* the final stage writes it, once; its path is reported only after that
\* stage has run.
C5_RuleFileLifecycle ==
    LET r     == rules(config)
        final == "ngrams_to_rules"
    IN  /\ started # <<>> => pc \in {"stmt", "wait", "report", "done"}
        /\ (pc \in {"lm_gate", "count_lines", "stmt", "wait"} /\ ~Started(final))
              => r \notin fs
        /\ \A m \in muts : m.path = r =>
              \/ m.by = "rules_gate" /\ m.op = "remove"
              \/ m.by = final /\ m.op \in {"create", "write"}
        /\ Cardinality({i \in 1..Len(started) : started[i] = final}) <= 1
        /\ reported # NoPath =>
              /\ reported = r
              /\ r \in fs
              /\ Cardinality({i \in 1..Len(started) : started[i] = final}) = 1
              /\ started[Len(started)] = final
              /\ \A j \in jobs : j.name # final

\* C5 witness: a run that removed an old rule file has reported the new one
C5_Witness ==
    /\ pc = "done" /\ reported = rules(config)
    /\ Mut("remove", rules(config), "rules_gate") \in muts

\* C9: a non-parallel run with TL_MODEL never runs the language-model
\* toolkit, never creates or removes the compressed model, never asks about
\* or deletes an existing language-model file, goes from the clean step
\* straight to multitrans, and ranks with the supplied model.
C9_SuppliedModelSkipsBuild ==
    (~config.IS_PARALLEL /\ config.TL_MODEL) =>
        /\ ~Started("build_lm") /\ ~Started("gunzip") /\ ~Started("rm_gz")
        /\ \A m \in muts : m.path \notin {tl_lm_default, Gz(tl_lm_default), TL_MODEL}
        /\ Gz(tl_lm_default) \notin fs
        /\ tl_lm_default \notin asked
        /\ \A i \in 1..Len(started) :
              (started[i] = "rm_clean_tagged" /\ i < Len(started))
                  => started[i + 1] = "multitrans_ambig"
        /\ (pc = "stmt" /\ started # <<>> /\ started[Len(started)] = "rm_clean_tagged")
              => Recipe[ip].name = "multitrans_ambig"
        /\ \A j \in jobs : j.name = "rank" =>
              TL_MODEL \in j.reads /\ tl_lm_default \notin j.reads

\* C9 witness: with TL_MODEL set and an old model file present, the ranking
\* chain is running
C9_Witness ==
    /\ ~config.IS_PARALLEL /\ config.TL_MODEL
    /\ tl_lm_default \in fs
    /\ \E j \in jobs : j.name = "rank" /\ j.last = "running"

\* the language-model step of a non-parallel run without TL_MODEL is over
LmStepOver == ~config.IS_PARALLEL /\ ~config.TL_MODEL /\ Started("multitrans_ambig")

\* the files the gzip copy wrote
Decompressed == {m.path : m \in {x \in muts : x.by = "gunzip"}}

\* C10 as stated: without TL_MODEL the model is built from the target
\* corpus, decompressed into the run's cache directory, and the compressed
\* intermediate is gone once the language-model step has finished.
C10_ModelInCacheDir ==
    LmStepOver =>
        /\ Started("build_lm")
        /\ Decompressed # {}
        /\ \A f \in Decompressed : f \in fs /\ f.dir = cache_dir(config)
        /\ Gz(tl_lm_default) \notin fs

\* C10 amended: without TL_MODEL the model is built from the target corpus,
\* decompressed into the working directory (the model file lies beside the
\* rule file, not inside the cache directory), and the compressed
\* intermediate is gone once the language-model step has finished.
C10_ModelInWorkingDir ==
    LmStepOver =>
        /\ Started("build_lm")
        /\ Decompressed = {tl_lm_default}
        /\ \A f \in Decompressed :
              f \in fs /\ f.dir = Cwd /\ f.dir # cache_dir(config)
        /\ \A f \in fs : f.gz = FALSE
        /\ Mut("remove", Gz(tl_lm_default), "rm_gz") \in muts

\* C10 witness: the model was built and multitrans has been started
C10_Witness ==
    /\ LmStepOver
    /\ tl_lm_default \in fs
    /\ \E j \in jobs : j.name = "multitrans_ambig"

(***************************************************************************)
(* The line budget (Spec).                                                 *)
(***************************************************************************)
\* the statements of the running recipe that tag a corpus
TaggingStmts == {i \in 1..Len(Recipe) : Recipe[i].name \in {"tag_sl", "tag_tl"}}

\* every tagging chain of the recipe begins with  head -n b  and is given b
\* as its expected line count (the source side always, the target side in
\* parallel mode)
TaggingBudgetIs(b) ==
    /\ \E i \in TaggingStmts : Recipe[i].name = "tag_sl"
    /\ config.IS_PARALLEL => \E i \in TaggingStmts : Recipe[i].name = "tag_tl"
    /\ \A i \in TaggingStmts :
          /\ Recipe[i].cmds[1] = Cmd("head", <<"-n", Str(b)>>)
          /\ Recipe[i].n = b

\* C11: when TRAINING_LINES exceeds the corpus line count, every tagging
\* stage (source side and, in parallel mode, target side) is given the corpus
\* line count and the warning is printed; otherwise every tagging stage is
\* given TRAINING_LINES and no warning is printed.
C11_BudgetClamped ==
    pc \in {"stmt", "wait", "report", "done"} =>
        /\ config.TRAINING_LINES > config.CORPUS_LINES =>
              TaggingBudgetIs(config.CORPUS_LINES) /\ warned
        /\ config.TRAINING_LINES <= config.CORPUS_LINES =>
              TaggingBudgetIs(config.TRAINING_LINES) /\ ~warned

\* C11 witness: the corpus is shorter than TRAINING_LINES, the warning was
\* printed and the target-side tagging chain of a parallel run is running
C11_Witness ==
    /\ config.TRAINING_LINES > config.CORPUS_LINES
    /\ config.IS_PARALLEL /\ warned
    /\ \E j \in jobs : j.name = "tag_tl" /\ j.last = "running"

(***************************************************************************)
(* Properties of query (SpecQuery).                                        *)
(***************************************************************************)
\* the typed line is the word in some letter case
InAnyCase(line, word) ==
    /\ Len(line) = Len(word)
    /\ \A i \in 1..Len(word) :
          \/ line[i] = word[i]
          \/ line[i] \in UpperCase /\ LowerChar(line[i]) = word[i]

MeansYes(line) == \E w \in {YesWord, <<"y">>, <<"y", "e">>} : InAnyCase(line, w)
MeansNo(line)  == \E w \in {NoWord, <<"n">>} : InAnyCase(line, w)

\* the default the call was made with is still the local default
DefaultSet == q_default # NoneDefault

\* a line that decides the answer
Decides(line) == MeansYes(line) \/ MeansNo(line) \/ (line = <<>> /\ DefaultSet)

\* the answer a deciding line stands for
AnswerOf(line) ==
    IF MeansYes(line) THEN "True"
    ELSE IF MeansNo(line) THEN "False"
    ELSE IF q_default = YesWord THEN "True" ELSE "False"

\* C12: the result is decided by the first typed line that is yes/y/ye/no/n
\* in any letter case (True for yes/y/ye, False for no/n) or empty while a
\* default is set (the default is the answer); every earlier line causes
\* exactly one reprompt with the usage hint and nothing else; with no default
\* an empty line reprompts.
C12_FirstDecidingLine ==
    /\ qpc = "returned" =>
          /\ q_pos >= 1 /\ Decides(q_typed[q_pos])
          /\ \A i \in 1..(q_pos - 1) : ~Decides(q_typed[i])
          /\ q_ret = AnswerOf(q_typed[q_pos])
          /\ q_hints = q_pos - 1 /\ q_prompts = q_pos
    /\ qpc \in {"print", "input", "eof"} =>
          /\ \A i \in 1..q_pos : ~Decides(q_typed[i])
          /\ q_ret = "none"
          /\ q_hints = q_pos
          /\ q_prompts = IF qpc = "print" THEN q_pos ELSE q_pos + 1
    /\ (q_default = NoneDefault /\ qpc = "returned") => q_typed[q_pos] # <<>>

\* C12 witness: with no default, an empty line and an unknown word were each
\* answered by the hint, and an upper-case word then decided the answer
C12_Witness ==
    /\ qpc = "returned" /\ q_default = NoneDefault
    /\ q_typed = <<<<>>, <<"m">>, <<"Y", "E", "S">>>>
    /\ q_ret = "True" /\ q_hints = 2

(***************************************************************************)
(* The wiring of a chain (SpecPipe).                                       *)
(***************************************************************************)
\* C13: for a non-empty list of n commands pipe starts exactly n processes
\* (n+1 with a monitor) in list order, all before it returns; the first reads
\* the caller's input source (or has no stdin redirection), each later one
\* reads the stdout pipe of the one before it, every process but the last
\* writes to a pipe, the last writes to the caller's output sink, and the
\* returned handle is the last started process.
C13_ChainWiring ==
    (ppc # "start" /\ cmds_in # <<>>) =>
        LET n   == Len(cmds_in)
            len == Len(procs)
        IN  /\ len = IF Truthy(expected_lines) /\ pv THEN n + 1 ELSE n
            /\ \A i \in 1..n : procs[i].cmd = cmds_in[i]
            /\ len = n + 1 => procs[len].cmd.exe = "pv"
            /\ procs[1].stdin = firstin
            /\ \A i \in 2..len : procs[i].stdin = PipeStdin(i - 1)
            /\ \A i \in 1..(len - 1) : procs[i].stdout = PIPE
            /\ procs[len].stdout = LastOut
            /\ ret = len

\* C13 witness: pipe has just returned for a list of MaxCmds commands read
\* from a file, with a monitor; none of the processes has exited yet
C13_Witness ==
    /\ ppc = "called" /\ Len(cmds_in) = MaxCmds /\ Len(procs) = MaxCmds + 1
    /\ firstin = FileStdin("inp")
    /\ \A i \in 1..Len(procs) : procs[i].st = "running"

(***************************************************************************)
(* The cache directory at the start of a recipe (Spec).                    *)
(***************************************************************************)
\* the recipe has been entered
InRecipe == pc \in {"rules_gate", "lm_gate", "count_lines", "stmt", "wait", "report", "done"}

\* C14: when a recipe begins, the cache directory exists and holds nothing
\* of an earlier run: it was absent and freshly created, or it existed, the
\* user confirmed, and it was wiped and recreated before the log file was
\* opened and before any stage started.
C14_FreshCacheDir ==
    LET d  == CacheDirPath(config)
        cd == cache_dir(config)
    IN  /\ pc = "open_log" =>
              /\ d \in fs /\ Inside(cd, fs) = {}
              /\ started = <<>> /\ jobs = {}
        /\ pc = "rules_gate" =>
              /\ d \in fs /\ Inside(cd, fs) = {log(config)}
              /\ started = <<>> /\ jobs = {}
        /\ InRecipe =>
              /\ d \in fs
              /\ Mut("mkdir", d, "main") \in muts
              /\ d \in asked <=> Mut("rmtree", d, "main") \in muts
              /\ \A f \in Inside(cd, fs) : \E m \in muts :
                    m.path = f /\ m.op = "create"

\* C14 witness: a recipe begins after the user confirmed the overwrite of a
\* cache directory left by an earlier run
C14_Witness ==
    /\ pc = "rules_gate"
    /\ CacheDirPath(config) \in asked
    /\ Mut("rmtree", CacheDirPath(config), "main") \in muts

(***************************************************************************)
(* Exit statuses (Spec).                                                   *)
(***************************************************************************)
\* the names of the statements of a recipe from the i-th on, in program order
RECURSIVE NamesFrom(_, _)
NamesFrom(recipe, i) ==
    IF i > Len(recipe) THEN <<>>
    ELSE <<recipe[i].name>> \o NamesFrom(recipe, i + 1)

\* the three kinds of run: parallel, non-parallel building the language
\* model, non-parallel with a supplied model
NamesParallel      == NamesFrom(ParallelRecipes[1], 1)
NamesBuiltModel    == NamesFrom(BuiltModelRecipes[1], 1)
NamesSuppliedModel == NamesFrom(SuppliedModelRecipes[1], 1)

NamesFor(cfg) ==
    IF cfg.IS_PARALLEL THEN NamesParallel
    ELSE IF cfg.TL_MODEL THEN NamesSuppliedModel ELSE NamesBuiltModel

\* the names depend on the mode and on TL_MODEL only, and no statement of a
\* recipe has the name of another
NamesWellFormed ==
    /\ \A cfg \in Configs, n \in 0..MaxTraining :
          NamesFrom(RecipeOf[cfg][n], 1) = NamesFor(cfg)
    /\ \A names \in {NamesParallel, NamesBuiltModel, NamesSuppliedModel} :
          \A i \in 1..Len(names), k \in 1..Len(names) : names[i] = names[k] => i = k

\* the stages started so far are the first statements of the recipe
StartedInOrder ==
    /\ NamesWellFormed
    /\ Len(started) <= Len(NamesFor(config))
    /\ started = SubSeq(NamesFor(config), 1, Len(started))
    /\ pc = "done" => started = NamesFor(config)

\* C15: a non-zero exit status of an external process is never inspected:
\* whatever the statuses, the stages started so far are the statements of the
\* recipe in program order, each once, and the run is never ended after a
\* stage has started.
C15_ExitStatusIgnored ==
    /\ StartedInOrder
    /\ (pc = "aborted" \/ exit_code # NoExit) => (started = <<>> /\ ~nonzero)

\* C15 witness: the run is complete although a process exited non-zero
C15_Witness == pc = "done" /\ nonzero /\ reported = rules(config)

(***************************************************************************)
(* The input of the two multitrans runs (SpecMultitrans).                  *)
(***************************************************************************)
\* the whole file, first block to last
WholeFile == [i \in 1..f_in_len |-> i]

\* C16: each of the two multitrans runs consumes the tagged source stream
\* from its first byte to its last, under every interleaving of the two
\* children and the parent's rewind: neither misses input, reads input twice
\* or starts at an offset other than 0.
C16_EachRunReadsAll ==
    /\ \A c \in Children :
          /\ child[c] = "eof" => consumed[c] = WholeFile
          /\ consumed[c] # <<>> => consumed[c][1] = 1
          /\ \A i \in 1..Len(consumed[c]), k \in 1..Len(consumed[c]) :
                consumed[c][i] = consumed[c][k] => i = k

(***************************************************************************)
(* Two runs in one working directory (SpecTwoRuns).                        *)
(***************************************************************************)
\* C17: two runs started in the same working directory with different
\* cache-directory names never create, truncate, write or delete the same
\* path: whatever one run touches is touched by that run only.
C17_NoSharedPath == t_touched[1] \cap t_touched[2] = {}

(***************************************************************************)
(* The caller's list (SpecPipe).                                           *)
(***************************************************************************)
\* C18: pipe leaves the caller's command list unchanged: after the call the
\* list has exactly the elements it had before, whether or not a monitoring
\* stage was inserted.
C18_ListUnchanged == ppc # "start" => cmds = cmds_in

(***************************************************************************)
(* Scratch files (Spec).                                                   *)
(***************************************************************************)
\* the scratch files of the run: clean_tagged, tmp1 and tmp2 in parallel mode,
\* the compressed language model when a model is built
Scratch ==
    {clean_tagged(cache_dir(config))}
    \cup (IF config.IS_PARALLEL THEN {tmp1, tmp2} ELSE {})
    \cup (IF ~config.IS_PARALLEL /\ ~config.TL_MODEL THEN {Gz(tl_lm_default)} ELSE {})

\* the scratch files that have been deleted by a statement of the recipe
Deleted == {m.path : m \in {x \in muts : x.op = "remove" /\ x.path \in Scratch}}

\* at completion no scratch file is left and the log is in the cache directory
ScratchGoneAtCompletion ==
    pc = "done" =>
        /\ Scratch \cap fs = {}
        /\ Scratch \subseteq Deleted
        /\ log(config) \in fs /\ log(config).dir = cache_dir(config)

\* no process that reads a deleted scratch file is still running
NoReaderOfDeleted == \A j \in jobs : j.reads \cap Deleted = {}

\* C19: at completion every scratch file the run created has been deleted
\* and the training log still exists in the cache directory; each scratch
\* file is deleted only after the last stage that reads it has finished.
C19_ScratchLifecycle == ScratchGoneAtCompletion /\ NoReaderOfDeleted

(***************************************************************************)
(* Line numbers (SpecClean).                                               *)
(***************************************************************************)
\* the number given to the i-th input line: from 1 in the parallel recipe,
\* from 0 in the non-parallel recipe
NumberOf(i) == IF c_parallel THEN i ELSE i - 1

\* the input lines the filter keeps: those with a '<' in a tagged field
Kept == {i \in 1..Len(corpus) :
            HasMarker(corpus[i].sl) \/ (c_parallel /\ HasMarker(corpus[i].tl))}

\* C20: with line budget N the parallel recipe numbers the lines 1..N and
\* the non-parallel recipe 0..N-1 (exactly N numbers, none when N = 0);
\* after filtering the line-number artifact holds exactly the original
\* numbers of the retained lines, in ascending order.
C20_LineNumbers ==
    /\ cpc \in {"paste", "cut1"} =>
          /\ Len(lines_f) = Len(corpus)
          /\ \A i \in 1..Len(corpus) : lines_f[i] = <<Str(NumberOf(i))>>
    /\ cpc \in {"cut2", "cut3", "done"} =>
          /\ Len(lines_f) = Cardinality(Kept)
          /\ \A i \in Kept :
                lines_f[Cardinality({k \in Kept : k <= i})] = <<Str(NumberOf(i))>>

\* C20 witness: the non-parallel stage has ended on MaxCorpus lines of which
\* the first was dropped: the artifact starts with the number 1
C20_Witness ==
    /\ cpc = "done" /\ ~c_parallel
    /\ Len(corpus) = MaxCorpus /\ 1 \notin Kept /\ 2 \in Kept
    /\ lines_f[1] = <<"1">>

====
